---- MODULE Spec2Model ----
(***************************************************************************)
(* Job/worker matching, notification dispatch, location disclosure and     *)
(* rating aggregation of FinderBackend, as a state machine over the        *)
(* document store (jobs, worker profiles, users) and the request handlers  *)
(* running concurrently against it.  A handler is cut into one action per  *)
(* store round trip (every `await`): the code between two awaits runs      *)
(* without interleaving on the single JavaScript thread.                   *)
(*                                                                         *)
(* Strings the code inspects (skills, categories, timeStart) are sequences *)
(* of one-character strings, so that toLowerCase, trim, split, Number and  *)
(* the case-insensitive regular expression of the dispatcher are computed  *)
(* and not assumed.  Coordinates are whole degrees; instants are minutes   *)
(* in the server's time zone, which is taken to have no clock changes.     *)
(***************************************************************************)
EXTENDS Integers, Sequences, FiniteSets, TLC

(***************************************************************************)
(* Strings                                                                 *)
(***************************************************************************)
plumbing == <<"p", "l", "u", "m", "b", "i", "n", "g">>
electrical == <<"e", "l", "e", "c", "t", "r", "i", "c", "a", "l">>
carpentry == <<"c", "a", "r", "p", "e", "n", "t", "r", "y">>
painting == <<"p", "a", "i", "n", "t", "i", "n", "g">>
cleaning == <<"c", "l", "e", "a", "n", "i", "n", "g">>
gardening == <<"g", "a", "r", "d", "e", "n", "i", "n", "g">>
moving == <<"m", "o", "v", "i", "n", "g">>
appliance_repair == <<"a", "p", "p", "l", "i", "a", "n", "c", "e", "_", "r", "e", "p", "a", "i", "r">>
hvac == <<"h", "v", "a", "c">>
roofing == <<"r", "o", "o", "f", "i", "n", "g">>
other == <<"o", "t", "h", "e", "r">>
general == <<"g", "e", "n", "e", "r", "a", "l">>

\* Skill strings a worker may send that are not category names.
PlumbingExpert == <<"P", "l", "u", "m", "b", "i", "n", "g", " ", "E", "x", "p", "e", "r", "t">>
welding == <<"w", "e", "l", "d", "i", "n", "g">>

UpperCase == <<"A", "B", "C", "D", "E", "F", "G", "H", "I", "J", "K", "L", "M", "N", "O", "P", "Q", "R", "S", "T", "U", "V", "W", "X", "Y", "Z">>
LowerCase == <<"a", "b", "c", "d", "e", "f", "g", "h", "i", "j", "k", "l", "m", "n", "o", "p", "q", "r", "s", "t", "u", "v", "w", "x", "y", "z">>
Digits == <<"0", "1", "2", "3", "4", "5", "6", "7", "8", "9">>

RECURSIVE IndexOf(_, _, _)
\* Position of character c in sequence s at or after i, 0 when absent.
IndexOf(s, c, i) ==
    IF i > Len(s) THEN 0
    ELSE IF s[i] = c THEN i
    ELSE IndexOf(s, c, i + 1)

\* The characters of the strings of this model.
Chars ==
    {UpperCase[i] : i \in 1..Len(UpperCase)} \cup {LowerCase[i] : i \in 1..Len(LowerCase)}
    \cup {Digits[i] : i \in 1..Len(Digits)} \cup {" ", ":", "_", ","}

\* The lower-case form of each character.
ToLower ==
    [c \in Chars |->
        IF IndexOf(UpperCase, c, 1) > 0 THEN LowerCase[IndexOf(UpperCase, c, 1)] ELSE c]

\* String.prototype.toLowerCase, character by character.
toLowerCase(s) == [i \in 1..Len(s) |-> ToLower[s[i]]]

RECURSIVE trimStart(_)
trimStart(s) ==
    IF Len(s) > 0 /\ s[1] = " " THEN trimStart(Tail(s)) ELSE s

RECURSIVE trimEnd(_)
trimEnd(s) ==
    IF Len(s) > 0 /\ s[Len(s)] = " " THEN trimEnd(SubSeq(s, 1, Len(s) - 1)) ELSE s

\* String.prototype.trim.
trim(s) == trimEnd(trimStart(s))

\* new RegExp(pattern, 'i').test(s) for a pattern without metacharacters:
\* s contains pattern, ignoring case.
RegExpTest(pattern, s) ==
    LET text == toLowerCase(s)
        word == toLowerCase(pattern)
    IN \E i \in 1..(Len(text) - Len(word) + 1) :
           SubSeq(text, i, i + Len(word) - 1) = word

RECURSIVE split(_, _)
\* String.prototype.split(sep) for a one-character separator.
split(s, sep) ==
    IF IndexOf(s, sep, 1) = 0 THEN <<s>>
    ELSE <<SubSeq(s, 1, IndexOf(s, sep, 1) - 1)>>
         \o split(SubSeq(s, IndexOf(s, sep, 1) + 1, Len(s)), sep)

\* A JavaScript number that is either an integer or NaN.
Num(n) == [isNaN |-> FALSE, val |-> n]
NaN == [isNaN |-> TRUE, val |-> 0]

RECURSIVE DecimalValue(_)
DecimalValue(s) ==
    IF Len(s) = 0 THEN 0
    ELSE 10 * DecimalValue(SubSeq(s, 1, Len(s) - 1))
         + (IndexOf(Digits, s[Len(s)], 1) - 1)

\* Number(s) on the strings of this model: the empty (or blank) string is 0,
\* a string of decimal digits is its value, anything else is NaN.
Number(s) ==
    IF \A i \in 1..Len(trim(s)) : IndexOf(Digits, trim(s)[i], 1) > 0
    THEN Num(DecimalValue(trim(s)))
    ELSE NaN

(***************************************************************************)
(* Identities, enumerations and inputs                                     *)
(***************************************************************************)
Clients == {"c1", "c2"}
WorkerUsers == {"w1", "w2", "w3"}
Users == Clients \cup WorkerUsers

\* req.user.userType, as loaded by the auth middleware.
userType(u) == IF u \in Clients THEN "client" ELSE "worker"

NoWorker == "none"
NoDate == -1

JobCategories ==
    {plumbing, electrical, carpentry, painting, cleaning, gardening, moving,
     appliance_repair, hvac, roofing, other}

WorkerCategories == JobCategories \cup {general}

JobStatuses == {"pending", "in progress", "completed", "cancelled"}

\* Bound on the number of jobs ever created.
MaxJobs == 2

\* Bound on the completedJobs counter.
MaxCompleted == 2

\* Minutes in an hour and in a day, and the instant h:m of a day.
Hour == 60
Day == 24 * Hour
At(day, h, m) == day * Day + h * Hour + m

\* The instants the clock passes through.
Clock ==
    <<At(0, 12, 0), At(0, 22, 55), At(0, 23, 0), At(1, 6, 55), At(1, 7, 0),
      At(1, 7, 5), At(1, 12, 0)>>

tenOClock == <<"1", "0", ":", "0", "0">>
twoOClock == <<"0", "2", ":", "0", "0">>
noMinutes == <<"1", "0">>

\* Request bodies of job creation.  latitude and longitude are what
\* parseFloat makes of the field; deadline is the instant new Date(deadline)
\* denotes.
JobBody(category, latitude, longitude, deadline, timeStart) ==
    [title |-> "Fix sink", description |-> "The kitchen sink leaks",
     category |-> category, address |-> "12 Main St, Delhi", timeEnd |-> "12:00",
     latitude |-> latitude, longitude |-> longitude, budget |-> Num(500),
     deadline |-> deadline, timeStart |-> timeStart]

\* The bodies posted while the dispatcher is under study: two categories
\* with different matching workers, and one the schema rejects.
DispatchBodies ==
    {JobBody(plumbing, Num(28), Num(77), At(1, 0, 0), tenOClock),
     JobBody(electrical, Num(28), Num(77), At(1, 0, 0), tenOClock),
     JobBody(welding, Num(28), Num(77), At(1, 0, 0), tenOClock)}

\* The body posted while the job life cycle is under study.
LifeCycleBody == JobBody(plumbing, Num(28), Num(77), At(1, 0, 0), tenOClock)

\* The statuses sent to updateJobStatus, one of them outside the enum.
StatusesSent == {"pending", "completed", "done"}

\* The bodies posted while the disclosure gate is under study: a start at
\* 10:00 on a deadline at midnight, a start at 02:00 on a deadline in the
\* afternoon (revealed the evening before), and a timeStart without minutes.
GateBodies ==
    {JobBody(plumbing, Num(28), Num(77), At(1, 0, 0), tenOClock),
     JobBody(plumbing, Num(28), Num(77), At(1, 15, 30), twoOClock),
     JobBody(plumbing, Num(28), Num(77), At(1, 0, 0), noMinutes)}

(***************************************************************************)
(* State                                                                   *)
(***************************************************************************)
VARIABLES
    jobs,       \* the jobs collection: a sequence, a job's _id is its index
    workers,    \* the workers collection: worker user -> profile document
    users,      \* the users collection: user -> [rating, completedJobs]
    now,        \* the server clock, in minutes
    vapid,      \* whether process.env.VAPID_PUBLIC_KEY is set
    nextId,     \* source of fresh notification _ids
    req,        \* user -> the request of that user being handled
    resp        \* the response sent last, with the user it went to

vars == <<jobs, workers, users, now, vapid, nextId, req, resp>>

Idle == [op |-> "idle"]
NoResponse == [to |-> "nobody", status |-> 0]

\* res.status(s).json({ message }) and next(new ErrorResponse(message, s)).
Error(s, message) == [to |-> "nobody", status |-> s, message |-> message]

JobIds == 1..Len(jobs)

(***************************************************************************)
(* utils/locationUtils.js                                                  *)
(***************************************************************************)
NoLocation == [type |-> "null", coordinates |-> <<>>]

\* validateCoordinates: null (NoLocation) or a GeoJSON point, longitude first.
validateCoordinates(latitude, longitude) ==
    IF latitude.isNaN \/ longitude.isNaN THEN NoLocation
    ELSE IF latitude.val < -90 \/ latitude.val > 90
            \/ longitude.val < -180 \/ longitude.val > 180 THEN NoLocation
    ELSE [type |-> "Point", coordinates |-> <<longitude.val, latitude.val>>]

(***************************************************************************)
(* models/Job.js                                                           *)
(***************************************************************************)
NoRating == 0

\* The validators of jobSchema that the inputs of this model can fail:
\* required title/description/address/timeStart/timeEnd, the category enum,
\* the coordinates validator, budget a number >= 0.
JobValid(doc) ==
    /\ doc.title # "" /\ doc.description # "" /\ doc.address # ""
    /\ Len(doc.timeStart) > 0 /\ doc.timeEnd # ""
    /\ doc.category \in JobCategories
    /\ Len(doc.location.coordinates) = 2
    /\ doc.location.coordinates[1] >= -180 /\ doc.location.coordinates[1] <= 180
    /\ doc.location.coordinates[2] >= -90 /\ doc.location.coordinates[2] <= 90
    /\ ~doc.budget.isNaN /\ doc.budget.val >= 0

\* new Job(jobData): the schema's paths with their defaults.  jobSchema
\* declares neither rating nor review, so a stored job never carries them.
NewJob(body, location, user) ==
    [title |-> body.title, description |-> body.description,
     category |-> body.category, location |-> location, timeEnd |-> body.timeEnd,
     address |-> body.address, budget |-> body.budget, deadline |-> body.deadline,
     timeStart |-> body.timeStart, status |-> "pending", user |-> user,
     worker |-> NoWorker, createdAt |-> now, completedAt |-> NoDate,
     rating |-> NoRating]

(***************************************************************************)
(* models/Worker.js                                                        *)
(***************************************************************************)
\* The mapping of the pre-save hook with 'general' taken for a synonym of
\* 'other'.
CategoryOfSkillGeneralAsOther(skill) ==
    IF \E cat \in JobCategories : toLowerCase(cat) = toLowerCase(skill)
    THEN CHOOSE cat \in JobCategories : toLowerCase(cat) = toLowerCase(skill)
    ELSE IF toLowerCase(skill) = general THEN other
    ELSE general

\* The category a skill maps to in the pre-save hook: the category equal to
\* it ignoring case, else 'general'.
CategoryOfSkill(skill) ==
    IF \E cat \in JobCategories : toLowerCase(cat) = toLowerCase(skill)
    THEN CHOOSE cat \in JobCategories : toLowerCase(cat) = toLowerCase(skill)
    ELSE general

\* workerSchema.pre('save'): categories are derived from skills when the
\* document has none.
preSave(doc) ==
    IF Len(doc.categories) = 0 /\ Len(doc.skills) > 0
    THEN [doc EXCEPT !.categories =
            [i \in 1..Len(doc.skills) |-> CategoryOfSkill(doc.skills[i])]]
    ELSE doc

\* A worker profile document.  pushSubscription is whether the document
\* carries the subscription that POST /push-subscription writes and the
\* dispatcher reads as worker.pushSubscription; it is taken to be kept as
\* written, although workerSchema does not declare the path.
Profile(skills, categories, serviceRadius, coordinates) ==
    [skills |-> skills, categories |-> categories, serviceRadius |-> serviceRadius,
     location |-> [type |-> "Point", coordinates |-> coordinates],
     notifications |-> <<>>, pushSubscription |-> FALSE]

(***************************************************************************)
(* utils/notifications.js: sendNotificationsToMatchingWorkers              *)
(***************************************************************************)
\* Worker.find({ $or: [{ skills: { $in: [/category/i] } },
\*                     { categories: { $in: [/category/i] } }] })
MatchingWorkers(job) ==
    {w \in DOMAIN workers :
        \/ \E i \in 1..Len(workers[w].skills) :
               RegExpTest(job.category, workers[w].skills[i])
        \/ \E i \in 1..Len(workers[w].categories) :
               RegExpTest(job.category, workers[w].categories[i])}

\* The notification object built for worker number k of the result.
Notification(j, job, k) ==
    [id |-> nextId + k, type |-> "new_job", job |-> j,
     message |-> <<"New job available: ", job.title>>,
     isRead |-> FALSE, createdAt |-> now]

RECURSIVE Rank(_, _)
\* The position of w in the result of the query, which lists a set of
\* worker documents in some fixed order.
Rank(w, S) ==
    IF S = {} THEN 0
    ELSE LET m == CHOOSE x \in S : TRUE
         IN IF m = w THEN 1 ELSE 1 + Rank(w, S \ {m})

\* A branch of matchingWorkers.map(async (worker) => ...) that has pushed its
\* notification onto the loaded document and awaits worker.save().
StartBranch(j, job, w, S) ==
    [pc |-> "save", settled |-> "pending", doc |-> [skills |-> workers[w].skills, categories |-> workers[w].categories,
             pushSubscription |-> workers[w].pushSubscription],
     notification |-> Notification(j, job, Rank(w, S)),
     saved |-> FALSE, pushAttempted |-> FALSE, pushFailed |-> FALSE]

\* worker.save() rejected with the catch of the map callback removed: the
\* branch's promise rejects.
SaveRejectedUncaught(b) ==
    [b EXCEPT !.pc = "done", !.settled = "rejected"]

\* worker.save() rejected: control goes to the catch of the map callback,
\* which logs; the branch's promise fulfils.
SaveRejected(b) ==
    [b EXCEPT !.pc = "done", !.settled = "fulfilled"]

\* worker.save() resolved: webpush.sendNotification is called when the
\* document has a subscription and the VAPID key is configured.
SaveResolved(b) ==
    IF b.doc.pushSubscription /\ vapid
    THEN [b EXCEPT !.saved = TRUE, !.pc = "push", !.pushAttempted = TRUE]
    ELSE [b EXCEPT !.saved = TRUE, !.pc = "done", !.settled = "fulfilled"]

\* worker.save() writing the pushed notification twice.
SavedWorkerTwice(stored, b) ==
    [stored EXCEPT !.notifications = Append(Append(@, b.notification), b.notification)]

\* What worker.save() writes: the pushed notification ($push) and the
\* categories when the pre-save hook derived them.
SavedWorker(stored, b) ==
    [stored EXCEPT !.notifications = Append(@, b.notification),
                   !.categories = IF preSave(b.doc).categories # b.doc.categories
                                  THEN preSave(b.doc).categories ELSE @]

\* Promise.all(notifications) has settled: every promise fulfilled, or one
\* rejected.
PromiseAllSettled(branches) ==
    \/ \A w \in DOMAIN branches : branches[w].settled = "fulfilled"
    \/ \E w \in DOMAIN branches : branches[w].settled = "rejected"

(***************************************************************************)
(* Request plumbing                                                        *)
(***************************************************************************)
\* The handler of u's request sends response r and ends.
Respond(u, r) ==
    /\ req' = [req EXCEPT ![u] = Idle]
    /\ resp' = [r EXCEPT !.to = u]

(***************************************************************************)
(* createJob: routes/jobs.js POST /create and controllers/jobController.js *)
(***************************************************************************)
\* The location object either implementation builds from the request, or
\* NoLocation when its own check of the coordinates rejects them.
JobLocation(impl, body) ==
    IF impl = "controller"
    THEN validateCoordinates(body.latitude, body.longitude)
    ELSE IF body.longitude.isNaN \/ body.longitude.val = 0
            \/ body.latitude.isNaN \/ body.latitude.val = 0
         THEN NoLocation
         ELSE [type |-> "Point",
               coordinates |-> <<body.longitude.val, body.latitude.val>>]

\* res.status(201).json(job): the document createJob saved.
CreateJobRespond(c) ==
    /\ Respond(c, [to |-> c, status |-> 201, job |-> req[c].job, data |-> req[c].doc])
    /\ UNCHANGED <<jobs, workers, users, now, vapid, nextId>>

\* An exception inside the dispatcher with its outer try/catch removed: it
\* reaches the catch of createJob.
DispatchUncaught(c) ==
    /\ Respond(c, Error(400, "dispatch failed"))
    /\ UNCHANGED <<jobs, workers, users, now, vapid, nextId>>

\* An exception inside the dispatcher reaches its outer catch, which logs;
\* the dispatcher returns normally and createJob goes on to respond.
DispatchCaught(c) == CreateJobRespond(c)

\* Up to and including `await job.save()`.
CreateJob(u, impl, body) ==
    /\ req[u] = Idle
    /\ Len(jobs) < MaxJobs
    /\ LET location == JobLocation(impl, body)
           doc == NewJob(body, location, u)
       IN CASE userType(u) # "client" ->
                 /\ Respond(u, Error(403, "Only clients can post jobs"))
                 /\ UNCHANGED jobs
            [] location = NoLocation ->
                 /\ Respond(u, Error(400, "Invalid coordinates"))
                 /\ UNCHANGED jobs
            [] ~JobValid(doc) ->
                 /\ Respond(u, Error(400, "Job validation failed"))
                 /\ UNCHANGED jobs
            [] OTHER ->
                 /\ jobs' = Append(jobs, doc)
                 /\ req' = [req EXCEPT ![u] =
                        [op |-> "createJob", pc |-> "find",
                         job |-> Len(jobs) + 1, doc |-> doc, branches |-> <<>>]]
                 /\ UNCHANGED resp
    /\ UNCHANGED <<workers, users, now, vapid, nextId>>

\* The dispatcher up to the resolution of Worker.find and, synchronously
\* after it, the start of every branch of the map.
DispatchFind(c) ==
    /\ req[c].op = "createJob" /\ req[c].pc = "find"
    /\ LET job == req[c].doc
           S == MatchingWorkers(job)
       IN \/ DispatchCaught(c)                    \* Worker.find rejected
          \/ /\ Len(job.category) = 0 \/ S = {}   \* the two early returns
             /\ CreateJobRespond(c)
          \/ /\ Len(job.category) > 0 /\ S # {}
             /\ req' = [req EXCEPT ![c].pc = "branches",
                          ![c].branches =
                              [w \in S |-> StartBranch(req[c].job, job, w, S)]]
             /\ nextId' = nextId + Cardinality(S)
             /\ UNCHANGED <<jobs, workers, users, now, vapid, resp>>

\* worker.save() of one branch settles, and a rejection abandons the branches
\* that have not saved yet (a fail-fast loop).
BranchSaveFailFast(c, w) ==
    /\ req[c].op = "createJob" /\ req[c].pc = "branches"
    /\ w \in DOMAIN req[c].branches
    /\ req[c].branches[w].pc = "save"
    /\ \/ /\ workers' = [workers EXCEPT ![w] = SavedWorker(@, req[c].branches[w])]
          /\ req' = [req EXCEPT ![c].branches[w] = SaveResolved(@)]
       \/ /\ req' = [req EXCEPT ![c].branches =
                 [v \in DOMAIN @ |-> IF @[v].pc = "save" THEN SaveRejected(@[v]) ELSE @[v]]]
          /\ UNCHANGED workers
    /\ UNCHANGED <<jobs, users, now, vapid, nextId, resp>>

\* worker.save() of one branch settles.
BranchSave(c, w) ==
    /\ req[c].op = "createJob" /\ req[c].pc = "branches"
    /\ w \in DOMAIN req[c].branches
    /\ req[c].branches[w].pc = "save"
    /\ \/ /\ workers' = [workers EXCEPT ![w] = SavedWorker(@, req[c].branches[w])]
          /\ req' = [req EXCEPT ![c].branches[w] = SaveResolved(@)]
       \/ /\ req' = [req EXCEPT ![c].branches[w] = SaveRejected(@)]
          /\ UNCHANGED workers
    /\ UNCHANGED <<jobs, users, now, vapid, nextId, resp>>

\* webpush.sendNotification of one branch settles, and with a rejection the
\* notification is taken back out of the worker's list.
BranchPushRollback(c, w) ==
    /\ req[c].op = "createJob" /\ req[c].pc = "branches"
    /\ w \in DOMAIN req[c].branches
    /\ req[c].branches[w].pc = "push"
    /\ \/ /\ req' = [req EXCEPT ![c].branches[w].pc = "done",
                                ![c].branches[w].settled = "fulfilled"]
          /\ UNCHANGED workers
       \/ /\ req' = [req EXCEPT ![c].branches[w].pc = "done",
                                ![c].branches[w].settled = "fulfilled",
                                ![c].branches[w].pushFailed = TRUE]
          /\ workers' = [workers EXCEPT ![w].notifications =
                 SelectSeq(@, LAMBDA n : n.id # req[c].branches[w].notification.id)]
    /\ UNCHANGED <<jobs, users, now, vapid, nextId, resp>>

\* webpush.sendNotification of one branch settles: a rejection is caught by
\* the inner catch, which logs.
BranchPush(c, w) ==
    /\ req[c].op = "createJob" /\ req[c].pc = "branches"
    /\ w \in DOMAIN req[c].branches
    /\ req[c].branches[w].pc = "push"
    /\ \/ req' = [req EXCEPT ![c].branches[w].pc = "done",
                             ![c].branches[w].settled = "fulfilled"]
       \/ req' = [req EXCEPT ![c].branches[w].pc = "done",
                             ![c].branches[w].settled = "fulfilled",
                             ![c].branches[w].pushFailed = TRUE]
    /\ UNCHANGED <<jobs, workers, users, now, vapid, nextId, resp>>

\* `await Promise.all(notifications)` settles, the dispatcher returns and
\* createJob sends its response.
DispatchReturn(c) ==
    /\ req[c].op = "createJob" /\ req[c].pc = "branches"
    /\ PromiseAllSettled(req[c].branches)
    /\ CreateJobRespond(c)

(***************************************************************************)
(* routes/worker.js: notifications and push subscription                   *)
(***************************************************************************)
RECURSIVE FirstWithId(_, _, _)
\* Index of the first notification of list ns with the given _id, 0 if none.
FirstWithId(ns, id, i) ==
    IF i > Len(ns) THEN 0
    ELSE IF ns[i].id = id THEN i
    ELSE FirstWithId(ns, id, i + 1)

\* The update with $[] in place of $: every notification of the worker is
\* marked.
MarkReadAll(u, id) ==
    /\ req[u] = Idle
    /\ IF userType(u) # "worker"
       THEN /\ Respond(u, Error(403, "Access denied. Worker only route."))
            /\ UNCHANGED workers
       ELSE IF u \notin DOMAIN workers \/ FirstWithId(workers[u].notifications, id, 1) = 0
       THEN /\ Respond(u, Error(404, "Worker or notification not found"))
            /\ UNCHANGED workers
       ELSE /\ workers' = [workers EXCEPT ![u].notifications =
                  [i \in 1..Len(@) |-> [@[i] EXCEPT !.isRead = TRUE]]]
            /\ Respond(u, [to |-> u, status |-> 200, message |-> "Notification marked as read"])
    /\ UNCHANGED <<jobs, users, now, vapid, nextId>>

\* PATCH /notifications/:notificationId, one findOneAndUpdate.
MarkRead(u, id) ==
    /\ req[u] = Idle
    /\ IF userType(u) # "worker"
       THEN /\ Respond(u, Error(403, "Access denied. Worker only route."))
            /\ UNCHANGED workers
       ELSE IF u \notin DOMAIN workers \/ FirstWithId(workers[u].notifications, id, 1) = 0
       THEN /\ Respond(u, Error(404, "Worker or notification not found"))
            /\ UNCHANGED workers
       ELSE /\ workers' = [workers EXCEPT
                  ![u].notifications[FirstWithId(workers[u].notifications, id, 1)].isRead = TRUE]
            /\ Respond(u, [to |-> u, status |-> 200, message |-> "Notification marked as read"])
    /\ UNCHANGED <<jobs, users, now, vapid, nextId>>

\* POST /push-subscription, one findOneAndUpdate.
SavePushSubscription(u, subscription) ==
    /\ req[u] = Idle
    /\ IF userType(u) # "worker"
       THEN /\ Respond(u, Error(403, "Access denied. Worker only route."))
            /\ UNCHANGED workers
       ELSE IF ~subscription
       THEN /\ Respond(u, Error(400, "Subscription data is required"))
            /\ UNCHANGED workers
       ELSE IF u \notin DOMAIN workers
       THEN /\ Respond(u, Error(404, "Worker profile not found"))
            /\ UNCHANGED workers
       ELSE /\ workers' = [workers EXCEPT ![u].pushSubscription = TRUE]
            /\ Respond(u, [to |-> u, status |-> 200, message |-> "Push subscription saved successfully"])
    /\ UNCHANGED <<jobs, users, now, vapid, nextId>>

(***************************************************************************)
(* Mongoose documents of the Job model                                     *)
(***************************************************************************)
\* The paths jobSchema declares, among the fields of this model.  Mongoose
\* (strict mode, the default) persists nothing else; `rating` is not one.
JobSchemaPaths ==
    {"title", "description", "category", "location", "address", "budget",
     "deadline", "timeStart", "timeEnd", "status", "user", "worker",
     "createdAt", "completedAt"}

\* job.save() of a loaded document: an update that sets the modified paths
\* of the schema on the stored document and leaves its other fields.
SaveJob(stored, doc, modified) ==
    [p \in DOMAIN stored |->
        IF p \in modified \cap JobSchemaPaths THEN doc[p] ELSE stored[p]]

\* doc[path] = value on a loaded document: the path counts as modified when
\* the value differs.
Assign(r, path, value) ==
    [r EXCEPT !.doc = [@ EXCEPT ![path] = value],
              !.modified = IF r.doc[path] # value THEN @ \cup {path} ELSE @]

\* A handler that has loaded job j.
Loaded(op, pc, j) ==
    [op |-> op, pc |-> pc, job |-> j, doc |-> jobs[j], modified |-> {}]

(***************************************************************************)
(* acceptJob: POST /:id/accept and jobController.acceptJob                 *)
(***************************************************************************)
\* acceptJob without its availability check.
AcceptJobUnchecked(u, j) ==
    /\ req[u] = Idle
    /\ CASE userType(u) # "worker" ->
              Respond(u, Error(403, "Only workers can accept jobs"))
         [] j \notin JobIds ->
              Respond(u, Error(404, "Job not found"))
         [] OTHER ->
              /\ req' = [req EXCEPT ![u] =
                     Assign(Assign(Loaded("acceptJob", "save", j), "worker", u),
                            "status", "in progress")]
              /\ UNCHANGED resp
    /\ UNCHANGED <<jobs, workers, users, now, vapid, nextId>>

\* Up to `await job.save()`: the role check, Job.findById and the
\* availability check.
AcceptJob(u, j) ==
    /\ req[u] = Idle
    /\ CASE userType(u) # "worker" ->
              Respond(u, Error(403, "Only workers can accept jobs"))
         [] j \notin JobIds ->
              Respond(u, Error(404, "Job not found"))
         [] jobs[j].status # "pending" \/ jobs[j].worker # NoWorker ->
              Respond(u, Error(400, "Job is no longer available"))
         [] OTHER ->
              /\ req' = [req EXCEPT ![u] =
                     Assign(Assign(Loaded("acceptJob", "save", j), "worker", u),
                            "status", "in progress")]
              /\ UNCHANGED resp
    /\ UNCHANGED <<jobs, workers, users, now, vapid, nextId>>

\* job.save() resolves and the job is sent back.
AcceptSave(u) ==
    /\ req[u].op = "acceptJob" /\ req[u].pc = "save"
    /\ jobs' = [jobs EXCEPT ![req[u].job] = SaveJob(@, req[u].doc, req[u].modified)]
    /\ Respond(u, [to |-> u, status |-> 200, job |-> req[u].job, data |-> req[u].doc])
    /\ UNCHANGED <<workers, users, now, vapid, nextId>>

(***************************************************************************)
(* updateJobStatus: PATCH /:id/status and jobController.updateJobStatus    *)
(***************************************************************************)
\* Up to the first await after Job.findById: the authorization check and the
\* assignments to the loaded document.
UpdateJobStatus(u, j, status) ==
    /\ req[u] = Idle
    /\ CASE j \notin JobIds ->
              Respond(u, Error(404, "Job not found"))
         [] jobs[j].user # u /\ jobs[j].worker # u ->
              Respond(u, Error(403, "Not authorized"))
         [] OTHER ->
              /\ req' = [req EXCEPT ![u] =
                     IF status = "completed"
                     THEN [Assign(Assign(Loaded("updateJobStatus", "save", j),
                                         "status", status), "completedAt", now)
                           EXCEPT !.pc = IF jobs[j].worker # NoWorker
                                         THEN "inc" ELSE "save"]
                     ELSE Assign(Loaded("updateJobStatus", "save", j),
                                 "status", status)]
              /\ UNCHANGED resp
    /\ UNCHANGED <<jobs, workers, users, now, vapid, nextId>>

\* User.findByIdAndUpdate(job.worker, { $inc: { completedJobs: 1 } }).
UpdateStatusInc(u) ==
    /\ req[u].op = "updateJobStatus" /\ req[u].pc = "inc"
    /\ users[req[u].doc.worker].completedJobs < MaxCompleted
    /\ users' = [users EXCEPT ![req[u].doc.worker].completedJobs = @ + 1]
    /\ req' = [req EXCEPT ![u].pc = "save"]
    /\ UNCHANGED <<jobs, workers, now, vapid, nextId, resp>>

\* job.save() with no validator on status: the modified paths are written
\* whatever the status.
UpdateStatusSaveUnvalidated(u) ==
    /\ req[u].op = "updateJobStatus" /\ req[u].pc = "save"
    /\ jobs' = [jobs EXCEPT ![req[u].job] = SaveJob(@, req[u].doc, req[u].modified)]
    /\ Respond(u, [to |-> u, status |-> 200, job |-> req[u].job, data |-> req[u].doc])
    /\ UNCHANGED <<workers, users, now, vapid, nextId>>

\* job.save(): rejected by the enum validator of status, else the modified
\* paths are written and the job is sent back.
UpdateStatusSave(u) ==
    /\ req[u].op = "updateJobStatus" /\ req[u].pc = "save"
    /\ IF req[u].doc.status \notin JobStatuses
       THEN /\ Respond(u, Error(400, "Job validation failed: status"))
            /\ UNCHANGED jobs
       ELSE /\ jobs' = [jobs EXCEPT ![req[u].job] =
                   SaveJob(@, req[u].doc, req[u].modified)]
            /\ Respond(u, [to |-> u, status |-> 200, job |-> req[u].job,
                           data |-> req[u].doc])
    /\ UNCHANGED <<workers, users, now, vapid, nextId>>

(***************************************************************************)
(* submitReview: POST /:id/review and jobController.addReview              *)
(***************************************************************************)
\* The ratings a poster sends.
Ratings == {3, 5}

\* A number as numerator and denominator; 0/0 is NaN.
Ratio(n, d) == <<n, d>>

RECURSIVE SumRatings(_)
\* workerJobs.reduce((acc, job) => acc + job.rating, 0)
SumRatings(S) ==
    IF S = {} THEN 0
    ELSE LET k == CHOOSE x \in S : TRUE
         IN jobs[k].rating + SumRatings(S \ {k})

\* Job.find({ worker: w, rating: { $exists: true } }): the stored jobs of the
\* worker that carry a rating.
RatedJobsOf(w) ==
    {k \in JobIds : jobs[k].worker = w /\ jobs[k].rating # NoRating}

\* res.json(job): the paths of the schema; a property set on the document
\* that the schema does not declare is not serialised.
toJSON(doc) ==
    [p \in DOMAIN doc |-> IF p \in JobSchemaPaths THEN doc[p] ELSE NoRating]

\* addReview without its check of the job's status.
AddReviewAnyStatus(u, j, rating) ==
    /\ req[u] = Idle
    /\ CASE j \notin JobIds ->
              Respond(u, Error(404, "Job not found"))
         [] jobs[j].user # u ->
              Respond(u, Error(403, "Not authorized"))
         [] OTHER ->
              /\ req' = [req EXCEPT ![u] =
                     Assign(Loaded("addReview", "save", j), "rating", rating)]
              /\ UNCHANGED resp
    /\ UNCHANGED <<jobs, workers, users, now, vapid, nextId>>

\* Up to `await job.save()`: Job.findById, the poster and status checks and
\* the assignment of rating and review to the loaded document.
AddReview(u, j, rating) ==
    /\ req[u] = Idle
    /\ CASE j \notin JobIds ->
              Respond(u, Error(404, "Job not found"))
         [] jobs[j].user # u ->
              Respond(u, Error(403, "Not authorized"))
         [] jobs[j].status # "completed" ->
              Respond(u, Error(400, "Can only review completed jobs"))
         [] OTHER ->
              /\ req' = [req EXCEPT ![u] =
                     Assign(Loaded("addReview", "save", j), "rating", rating)]
              /\ UNCHANGED resp
    /\ UNCHANGED <<jobs, workers, users, now, vapid, nextId>>

\* job.save() resolves.
ReviewSave(u) ==
    /\ req[u].op = "addReview" /\ req[u].pc = "save"
    /\ jobs' = [jobs EXCEPT ![req[u].job] = SaveJob(@, req[u].doc, req[u].modified)]
    /\ req' = [req EXCEPT ![u].pc = "find"]
    /\ UNCHANGED <<workers, users, now, vapid, nextId, resp>>

\* Job.find of the worker's rated jobs resolves and the average is taken.
ReviewFind(u) ==
    /\ req[u].op = "addReview" /\ req[u].pc = "find"
    /\ LET workerJobs == RatedJobsOf(req[u].doc.worker)
       IN req' = [req EXCEPT ![u] =
              [op |-> "addReview", pc |-> "update", job |-> req[u].job,
               doc |-> req[u].doc,
               average |-> Ratio(SumRatings(workerJobs), Cardinality(workerJobs))]]
    /\ UNCHANGED <<jobs, workers, users, now, vapid, nextId, resp>>

\* User.findByIdAndUpdate(job.worker, { rating: averageRating }) resolves and
\* the job is sent back; or, the average being NaN, the update is rejected
\* by the cast of the value and the catch answers 400.
ReviewUpdate(u) ==
    /\ req[u].op = "addReview" /\ req[u].pc = "update"
    /\ \/ /\ users' = [x \in Users |->
                 IF x = req[u].doc.worker
                 THEN [users[x] EXCEPT !.rating = req[u].average]
                 ELSE users[x]]
          /\ Respond(u, [to |-> u, status |-> 200, job |-> req[u].job,
                         data |-> toJSON(req[u].doc)])
       \/ /\ req[u].average[2] = 0
          /\ Respond(u, Error(400, "Cast to Number failed"))
          /\ UNCHANGED users
    /\ UNCHANGED <<jobs, workers, now, vapid, nextId>>

(***************************************************************************)
(* getJobLocation: GET /job-location/:jobId                                *)
(***************************************************************************)
\* Hours before the start at which the exact location is revealed.
RevealHours == 3

NoInstant == -1

\* jobDate.setHours(hour, minute, 0, 0) on a copy of the deadline, then
\* revealTime.setHours(revealTime.getHours() - 3); NoInstant is the invalid
\* date that a NaN hour or minute yields.
RevealTime(job) ==
    LET parts == split(job.timeStart, ":")
        hour == Number(parts[1])
        minute == IF Len(parts) >= 2 THEN Number(parts[2]) ELSE NaN
        midnight == job.deadline - (job.deadline % Day)
    IN IF hour.isNaN \/ minute.isNaN THEN NoInstant
       ELSE midnight + hour.val * Hour + minute.val - RevealHours * Hour

\* now >= revealTime, false when revealTime is the invalid date.
Revealed(job) == RevealTime(job) # NoInstant /\ now >= RevealTime(job)

\* The comparison of the gate with > in place of >=.
DisclosureStrict(job) ==
    IF RevealTime(job) # NoInstant /\ now > RevealTime(job)
    THEN [to |-> "nobody", status |-> 200, available |-> TRUE,
          exactLocation |-> [latitude |-> job.location.coordinates[2],
                             longitude |-> job.location.coordinates[1]],
          exactAddress |-> job.address]
    ELSE [to |-> "nobody", status |-> 200, available |-> FALSE,
          revealTime |-> RevealTime(job)]

\* The body sent for a job the caller may see.
Disclosure(job) ==
    IF Revealed(job)
    THEN [to |-> "nobody", status |-> 200, available |-> TRUE,
          exactLocation |-> [latitude |-> job.location.coordinates[2],
                             longitude |-> job.location.coordinates[1]],
          exactAddress |-> job.address]
    ELSE [to |-> "nobody", status |-> 200, available |-> FALSE,
          revealTime |-> RevealTime(job)]

\* The query of getJobLocation with the status filter left out.
AssignedJobAnyStatus(u, j) ==
    j \in JobIds /\ jobs[j].worker = u

\* Job.findOne({ _id: jobId, worker: req.user._id,
\*               status: { $in: ['in progress', 'pending'] } }) finds job j.
AssignedActiveJob(u, j) ==
    /\ j \in JobIds
    /\ jobs[j].worker = u
    /\ jobs[j].status \in {"in progress", "pending"}

\* The whole handler: isWorker, the query and the gate.
GetJobLocation(u, j) ==
    /\ req[u] = Idle
    /\ CASE userType(u) # "worker" ->
              Respond(u, Error(403, "Access denied. Worker only route."))
         [] ~AssignedActiveJob(u, j) ->
              Respond(u, Error(404, "Job not found or not assigned to you"))
         [] OTHER ->
              Respond(u, Disclosure(jobs[j]))
    /\ UNCHANGED <<jobs, workers, users, now, vapid, nextId>>

(***************************************************************************)
(* The clock                                                               *)
(***************************************************************************)
\* Time passes to the next instant of Clock.
Tick ==
    /\ \E i \in 1..(Len(Clock) - 1) : now = Clock[i] /\ now' = Clock[i + 1]
    /\ UNCHANGED <<jobs, workers, users, vapid, nextId, req, resp>>

(***************************************************************************)
(* Initial states and specifications                                       *)
(***************************************************************************)
\* register (userController.js) for a worker: Worker.create with the skills
\* as sent, no categories, radius 10 and the Delhi default location; the
\* pre-save hook of create derives the categories.
RegisteredProfile(skills) == preSave(Profile(skills, <<>>, 10, <<77, 28>>))

\* users: every account with the defaults of a fresh registration.
InitCommon ==
    /\ jobs = <<>>
    /\ users = [u \in Users |-> [rating |-> <<0, 1>>, completedJobs |-> 0]]
    /\ now = Clock[1]
    /\ nextId = 0
    /\ req = [u \in Users |-> Idle]
    /\ resp = NoResponse

\* Three registered workers, before any job has been posted.
InitDispatch ==
    /\ InitCommon
    /\ vapid \in BOOLEAN
    /\ workers = [w \in WorkerUsers |->
          [(CASE w = "w1" -> RegisteredProfile(<<plumbing>>)
              [] w = "w2" -> RegisteredProfile(<<PlumbingExpert>>)
              [] OTHER -> RegisteredProfile(<<electrical>>))
           EXCEPT !.pushSubscription = (w \in {"w1", "w3"})]]

NextDispatch ==
    \/ \E u \in Users, impl \in {"route", "controller"}, body \in DispatchBodies :
           CreateJob(u, impl, body)
    \/ \E c \in Clients : DispatchFind(c)
    \/ \E c \in Clients, w \in WorkerUsers : BranchSave(c, w)
    \/ \E c \in Clients, w \in WorkerUsers : BranchPush(c, w)
    \/ \E c \in Clients : DispatchReturn(c)
    \/ \E u \in {"w1", "c1"}, id \in 1..nextId : MarkRead(u, id)

SpecDispatch == InitDispatch /\ [][NextDispatch]_vars

\* A worker whose skills match no job of this model, so that the dispatcher
\* found nobody to notify when the jobs of the initial state were posted.
UnmatchedWorkers ==
    [w \in WorkerUsers |-> RegisteredProfile(<<welding>>)]

\* The job that createJob stored for body, posted by client c.
Posted(body, c) == NewJob(body, JobLocation("controller", body), c)

\* One job posted by c1, and nothing else done yet.
InitJobs ==
    /\ users = [u \in Users |-> [rating |-> <<0, 1>>, completedJobs |-> 0]]
    /\ now = Clock[1]
    /\ nextId = 0
    /\ req = [u \in Users |-> Idle]
    /\ resp = NoResponse
    /\ vapid = FALSE
    /\ workers = UnmatchedWorkers
    /\ jobs = <<Posted(LifeCycleBody, "c1")>>

NextJobs ==
    \/ \E u \in {"w1", "w2", "c1"}, j \in 1..(Len(jobs) + 1) : AcceptJob(u, j)
    \/ \E u \in WorkerUsers : AcceptSave(u)
    \/ \E u \in {"w1", "c1"}, j \in 1..(Len(jobs) + 1), status \in StatusesSent :
           UpdateJobStatus(u, j, status)
    \/ \E u \in Users : UpdateStatusInc(u)
    \/ \E u \in Users : UpdateStatusSave(u)
    \/ \E u \in Clients, j \in 1..(Len(jobs) + 1), rating \in Ratings :
           AddReview(u, j, rating)
    \/ \E u \in Clients : ReviewSave(u)
    \/ \E u \in Clients : ReviewFind(u)
    \/ \E u \in Clients : ReviewUpdate(u)

SpecJobs == InitJobs /\ [][NextJobs]_vars

\* One job posted by c1 with any of the bodies of GateBodies, which w1 has
\* accepted.
InitGate ==
    /\ users = [u \in Users |-> [rating |-> <<0, 1>>, completedJobs |-> 0]]
    /\ now = Clock[1]
    /\ nextId = 0
    /\ req = [u \in Users |-> Idle]
    /\ resp = NoResponse
    /\ vapid = FALSE
    /\ workers = UnmatchedWorkers
    /\ \E body \in GateBodies :
           jobs = <<[Posted(body, "c1") EXCEPT !.worker = "w1",
                                               !.status = "in progress"]>>

NextGate ==
    \/ \E j \in 1..(Len(jobs) + 1), status \in StatusesSent :
           UpdateJobStatus("c1", j, status)
    \/ UpdateStatusInc("c1")
    \/ UpdateStatusSave("c1")
    \/ \E u \in {"w1", "w2", "c1"}, j \in 1..(Len(jobs) + 1) : GetJobLocation(u, j)
    \/ Tick

SpecGate == InitGate /\ [][NextGate]_vars

\* The statuses sent while the terminal states of a job are under study.
TerminalStatusesSent == {"cancelled", "completed", "pending"}

NextTerminal ==
    \/ \E j \in 1..(Len(jobs) + 1) : AcceptJob("w1", j)
    \/ AcceptSave("w1")
    \/ \E u \in {"w1", "c1"}, j \in 1..(Len(jobs) + 1), status \in TerminalStatusesSent :
           UpdateJobStatus(u, j, status)
    \/ \E u \in {"w1", "c1"} : UpdateStatusInc(u)
    \/ \E u \in {"w1", "c1"} : UpdateStatusSave(u)
    \/ \E j \in 1..(Len(jobs) + 1), rating \in Ratings : AddReview("c1", j, rating)
    \/ ReviewSave("c1")
    \/ ReviewFind("c1")
    \/ ReviewUpdate("c1")

\* The life cycle of one job, cancellation included, from its posting on.
SpecTerminal == InitJobs /\ [][NextTerminal]_vars

(***************************************************************************)
(* validateCoordinates on raw request values                               *)
(***************************************************************************)
RECURSIVE DigitPrefix(_)
\* The longest prefix of s made of decimal digits.
DigitPrefix(s) ==
    IF Len(s) > 0 /\ IndexOf(Digits, s[1], 1) > 0
    THEN <<s[1]>> \o DigitPrefix(Tail(s))
    ELSE <<>>

\* parseFloat(value) on the text of the value, for texts without a fraction
\* or an exponent: leading white space is skipped, then an optional sign and
\* the digits that follow are read, and whatever comes after them is
\* ignored; NaN when no digit is found there.
parseFloat(s) ==
    LET t == trimStart(s)
        negative == Len(t) > 0 /\ t[1] = "-"
        signed == Len(t) > 0 /\ t[1] \in {"-", "+"}
        digits == DigitPrefix(IF signed THEN Tail(t) ELSE t)
    IN IF Len(digits) = 0 THEN NaN
       ELSE Num(IF negative THEN 0 - DecimalValue(digits) ELSE DecimalValue(digits))

\* Texts of the latitude and longitude fields of a request: numerals in and
\* out of range, the absent field, blank and non-numeric texts, and a
\* numeral followed by letters.
RawCoordinates ==
    {<<"0">>, <<"2", "8">>, <<"-", "2", "8">>, <<"7", "7">>, <<"9", "0">>,
     <<"-", "9", "0">>, <<"9", "1">>, <<"-", "9", "1">>, <<"1", "8", "0">>,
     <<"1", "8", "1">>, <<"-", "1", "8", "1">>, <<>>, <<"a", "b", "c">>,
     <<"1", "2", "a", "b", "c">>,
     <<"u", "n", "d", "e", "f", "i", "n", "e", "d">>}

\* A call validateCoordinates(latitude, longitude) returns.
ValidateCoordinates(u) ==
    /\ req[u].op = "validateCoordinates"
    /\ Respond(u, [to |-> u, status |-> 200,
                   latitude |-> req[u].latitude, longitude |-> req[u].longitude,
                   location |-> validateCoordinates(parseFloat(req[u].latitude),
                                                    parseFloat(req[u].longitude))])
    /\ UNCHANGED <<jobs, workers, users, now, vapid, nextId>>

\* A call of validateCoordinates with any two of the texts is about to run.
InitValidate ==
    /\ jobs = <<>>
    /\ users = [u \in Users |-> [rating |-> <<0, 1>>, completedJobs |-> 0]]
    /\ now = Clock[1]
    /\ nextId = 0
    /\ resp = NoResponse
    /\ vapid = FALSE
    /\ workers = UnmatchedWorkers
    /\ \E latitude \in RawCoordinates, longitude \in RawCoordinates :
           req = [u \in Users |->
                     IF u = "w1"
                     THEN [op |-> "validateCoordinates",
                           latitude |-> latitude, longitude |-> longitude]
                     ELSE Idle]

NextValidate == ValidateCoordinates("w1")

SpecValidate == InitValidate /\ [][NextValidate]_vars

(***************************************************************************)
(* The category normalization of the pre-save hook                         *)
(***************************************************************************)
PLUMBING == <<"P", "L", "U", "M", "B", "I", "N", "G">>
paddedPlumbing == <<" ", "p", "l", "u", "m", "b", "i", "n", "g", " ">>

\* Skill strings a request may carry: every category name, 'general', a
\* category name in upper case and one with blanks around it, and two
\* strings that name no category.
SkillStrings ==
    WorkerCategories \cup {PLUMBING, paddedPlumbing, PlumbingExpert, welding}

\* Bound on the number of skills in a request.
MaxSkills == 2

\* The skill lists a request may carry.
SkillLists == UNION {[1..n -> SkillStrings] : n \in 0..MaxSkills}

\* A save of a new worker document with the given skills and no categories
\* has run the pre-save hook.
Normalize(u) ==
    /\ req[u].op = "normalize"
    /\ Respond(u, [to |-> u, status |-> 200, skills |-> req[u].skills,
                   categories |->
                       preSave(Profile(req[u].skills, <<>>, 10, <<77, 28>>)).categories])
    /\ UNCHANGED <<jobs, workers, users, now, vapid, nextId>>

\* A worker document with any of the skill lists is about to be saved.
InitNormalize ==
    /\ jobs = <<>>
    /\ users = [u \in Users |-> [rating |-> <<0, 1>>, completedJobs |-> 0]]
    /\ now = Clock[1]
    /\ nextId = 0
    /\ resp = NoResponse
    /\ vapid = FALSE
    /\ workers = UnmatchedWorkers
    /\ \E skills \in SkillLists :
           req = [u \in Users |->
                     IF u = "w1" THEN [op |-> "normalize", skills |-> skills]
                     ELSE Idle]

NextNormalize == Normalize("w1")

SpecNormalize == InitNormalize /\ [][NextNormalize]_vars

(***************************************************************************)
(* listNearbyJobsForWorker: GET /nearby-jobs                               *)
(***************************************************************************)
\* Metres in a degree of a meridian on the sphere MongoDB measures
\* $nearSphere distances on (radius 6378.1 km).
MetresPerDegree == 111319

\* The distance $nearSphere takes between two points of one meridian, in
\* metres.  The positions of this model all have longitude 77 or are (0,0).
SphereDistance(coords1, coords2) ==
    (IF coords1[2] >= coords2[2] THEN coords1[2] - coords2[2]
     ELSE coords2[2] - coords1[2]) * MetresPerDegree

\* calculateDistance between two points of one meridian, in tenths of a
\* kilometre: the haversine distance with R = 6371 km is 111.1949 km a
\* degree, rounded to one decimal; -1 km when a point is missing.
calculateDistance(coords1, coords2) ==
    IF Len(coords1) < 2 \/ Len(coords2) < 2 THEN -10
    ELSE LET d == IF coords1[2] >= coords2[2] THEN coords1[2] - coords2[2]
                  ELSE coords2[2] - coords1[2]
         IN (d * 1111949 + 500) \div 1000

\* The check of the worker's registered location without its (0,0) clause.
ValidRegisteredLocationOriginAllowed(worker) ==
    /\ worker.location # NoLocation
    /\ Len(worker.location.coordinates) = 2

\* The worker document has a location with exactly two coordinates that are
\* not both 0.
ValidRegisteredLocation(worker) ==
    /\ worker.location # NoLocation
    /\ Len(worker.location.coordinates) = 2
    /\ ~(worker.location.coordinates[1] = 0 /\ worker.location.coordinates[2] = 0)

\* The query object: the category filter is added unless the worker has no
\* categories or the single category 'general'.
NearbyQuery(worker) ==
    [status |-> "pending",
     geometry |-> worker.location,
     maxDistance |->
         (IF worker.serviceRadius = 0 THEN 100 ELSE worker.serviceRadius) * 1000,
     filtered |->
         /\ Len(worker.categories) > 0
         /\ ~(Len(worker.categories) = 1 /\ worker.categories[1] = general),
     category |-> {worker.categories[i] : i \in 1..Len(worker.categories)}]

\* The query with its status clause left out.
MatchesAnyStatus(query, job) ==
    /\ job.worker = NoWorker
    /\ SphereDistance(query.geometry.coordinates, job.location.coordinates)
           <= query.maxDistance
    /\ query.filtered => job.category \in query.category

\* The stored job satisfies the query.
Matches(query, job) ==
    /\ job.status = query.status
    /\ job.worker = NoWorker
    /\ SphereDistance(query.geometry.coordinates, job.location.coordinates)
           <= query.maxDistance
    /\ query.filtered => job.category \in query.category

RECURSIVE sort(_)
\* .sort({ createdAt: -1 }): every order of the jobs S by createdAt
\* descending; the order of jobs created at the same instant is not fixed.
sort(S) ==
    IF S = {} THEN {<<>>}
    ELSE UNION {{<<k>> \o t : t \in sort(S \ {k})} :
                k \in {x \in S : \A y \in S : jobs[y].createdAt <= jobs[x].createdAt}}

\* The number of jobs a result holds at most.
Limit == 20

\* .limit(n)
limit(s, n) == SubSeq(s, 1, IF Len(s) < n THEN Len(s) ELSE n)

\* address.split(',').slice(1).join(',').trim() for the address of the
\* model's jobs; an address without a comma is kept whole.
approximateLocation(address) ==
    IF address = "12 Main St, Delhi" THEN "Delhi" ELSE address

\* The object of a job with its location left in.
NearbyObjectWithLocation(k, job, worker) ==
    [p \in JobSchemaPaths \cup {"_id", "approximateLocation", "distance"} |->
        CASE p = "_id" -> k
          [] p = "approximateLocation" -> approximateLocation(job.address)
          [] p = "distance" ->
                 calculateDistance(worker.location.coordinates,
                                   job.location.coordinates)
          [] OTHER -> job[p]]

\* job.toObject() with approximateLocation and distance added and location
\* deleted.
NearbyObject(k, job, worker) ==
    [p \in (JobSchemaPaths \ {"location"})
              \cup {"_id", "approximateLocation", "distance"} |->
        CASE p = "_id" -> k
          [] p = "approximateLocation" -> approximateLocation(job.address)
          [] p = "distance" ->
                 calculateDistance(worker.location.coordinates,
                                   job.location.coordinates)
          [] OTHER -> job[p]]

\* Up to `await Job.find(query)`: isWorker, Worker.findOne, the check of the
\* registered location and the construction of the query.
NearbyJobs(u) ==
    /\ req[u] = Idle
    /\ CASE userType(u) # "worker" ->
              Respond(u, Error(403, "Access denied. Worker only route."))
         [] u \notin DOMAIN workers ->
              Respond(u, Error(404, "Worker profile not found"))
         [] ~ValidRegisteredLocation(workers[u]) ->
              Respond(u, Error(400, "Valid worker location not found. Please update your registered location."))
         [] OTHER ->
              /\ req' = [req EXCEPT ![u] =
                     [op |-> "nearbyJobs", pc |-> "find", worker |-> workers[u],
                      query |-> NearbyQuery(workers[u])]]
              /\ UNCHANGED resp
    /\ UNCHANGED <<jobs, workers, users, now, vapid, nextId>>

\* Job.find(query).sort({ createdAt: -1 }).limit(20) resolves and the
\* transformed jobs are sent.
NearbyFind(u) ==
    /\ req[u].op = "nearbyJobs" /\ req[u].pc = "find"
    /\ \E s \in sort({k \in JobIds : Matches(req[u].query, jobs[k])}) :
           LET nearbyJobs == limit(s, Limit)
           IN Respond(u, [to |-> u, status |-> 200, success |-> TRUE,
                          count |-> Len(nearbyJobs),
                          data |-> [i \in 1..Len(nearbyJobs) |->
                                       NearbyObject(nearbyJobs[i], jobs[nearbyJobs[i]],
                                                    req[u].worker)]])
    /\ UNCHANGED <<jobs, workers, users, now, vapid, nextId>>

\* Bound on the number of stored jobs.
MaxStored == 22

\* The categories of the stored jobs, job i having the category at i modulo 3.
StoredCategories == <<plumbing, electrical, carpentry>>

\* The job number i of a store: posted by c1 at instant i (or, with ties, at
\* the instant of the job before it from the third job on), on the meridian
\* of the worker, (i modulo spread) degrees north of the worker.
StoredJob(i, spread, ties) ==
    [Posted(JobBody(StoredCategories[(i % 3) + 1], Num(28 + (i % spread)), Num(77),
                    At(1, 0, 0), tenOClock), "c1")
     EXCEPT !.createdAt = IF ties /\ i >= 3 THEN i - 1 ELSE i]

\* What has happened to one job of the store since it was posted: nothing,
\* accepted by w2, accepted and completed, accepted and set back to
\* pending, or cancelled by its poster.
JobHistories == {"posted", "accepted", "completed", "reopened", "cancelled"}

AfterHistory(job, history) ==
    CASE history = "accepted" ->
             [job EXCEPT !.worker = "w2", !.status = "in progress"]
      [] history = "completed" ->
             [job EXCEPT !.worker = "w2", !.status = "completed",
                         !.completedAt = At(0, 12, 0)]
      [] history = "reopened" -> [job EXCEPT !.worker = "w2"]
      [] history = "cancelled" -> [job EXCEPT !.status = "cancelled"]
      [] OTHER -> job

\* The profiles of the worker who asks: registered with no skill, with a
\* skill that names no category, with two such skills, with one category or
\* with two; with the radius of a registration or one set later through the
\* profile; at the registered position or moved to (0,0) by update-location.
NearbyProfiles ==
    {[RegisteredProfile(skills) EXCEPT !.serviceRadius = serviceRadius,
                                       !.location.coordinates = coordinates] :
        skills \in {<<>>, <<welding>>, <<welding, PlumbingExpert>>, <<plumbing>>,
                    <<plumbing, electrical>>},
        serviceRadius \in {10, 120, 250},
        coordinates \in {<<77, 28>>, <<0, 0>>}}

\* A store of jobs and the profile of w1, or no profile of w1, with no
\* request under way.
InitNearby ==
    /\ users = [u \in Users |-> [rating |-> <<0, 1>>, completedJobs |-> 0]]
    /\ now = Clock[1]
    /\ nextId = 0
    /\ req = [u \in Users |-> Idle]
    /\ resp = NoResponse
    /\ vapid = FALSE
    /\ \/ \E profile \in NearbyProfiles :
              workers = [w \in WorkerUsers |->
                            IF w = "w1" THEN profile ELSE UnmatchedWorkers[w]]
       \/ workers = [w \in WorkerUsers \ {"w1"} |-> UnmatchedWorkers[w]]
    /\ \E n \in 0..MaxStored, spread \in {1, 3}, ties \in BOOLEAN,
          history \in JobHistories, newest \in BOOLEAN :
           LET odd == IF newest THEN n ELSE 1
           IN jobs = [i \in 1..n |->
                      IF i = odd THEN AfterHistory(StoredJob(i, spread, ties), history)
                      ELSE StoredJob(i, spread, ties)]

NextNearby ==
    \/ NearbyJobs("w1")
    \/ NearbyFind("w1")

SpecNearby == InitNearby /\ [][NextNearby]_vars

(***************************************************************************)
(* Worker profiles: register, ensure-profile, PUT /profile,                *)
(* updateWorkerProfile and PUT /update-location                            *)
(***************************************************************************)
\* A request field is truthy unless it is absent (the text 'undefined'),
\* the empty string or the number 0.
Truthy(text) ==
    text \notin {<<>>, <<"0">>, <<"u", "n", "d", "e", "f", "i", "n", "e", "d">>}

\* A collection without the 2dsphere index takes any coordinates.
GeoKeysNoIndex(coordinates) == Len(coordinates) = 2

\* The 2dsphere index on location takes a point whose longitude and
\* latitude are within bounds and makes the write of any other fail.
GeoKeys(coordinates) ==
    /\ Len(coordinates) = 2
    /\ coordinates[1] >= -180 /\ coordinates[1] <= 180
    /\ coordinates[2] >= -90 /\ coordinates[2] <= 90

\* skills ? skills.map(skill => skill.toLowerCase().trim()) : ['general']
NormalizedSkills(body) ==
    IF "skills" \in DOMAIN body
    THEN [i \in 1..Len(body.skills) |-> trim(toLowerCase(body.skills[i]))]
    ELSE <<general>>

\* register for a worker: User.create, then Worker.create with the
\* validated coordinates or the default ones.  A skill that is the empty
\* string fails the schema's `required`, and the user stays without profile.
Register(u, body) ==
    /\ req[u] = Idle
    /\ LET valid == validateCoordinates(parseFloat(body.latitude),
                                        parseFloat(body.longitude))
           location == IF valid = NoLocation
                       THEN [type |-> "Point", coordinates |-> <<77, 28>>]
                       ELSE valid
           skills == IF "skills" \in DOMAIN body THEN body.skills ELSE <<>>
           account == [rating |-> <<0, 1>>, completedJobs |-> 0]
       IN CASE u \in DOMAIN users ->
                 /\ Respond(u, Error(400, "Email is already registered"))
                 /\ UNCHANGED <<users, workers>>
            [] \E i \in 1..Len(skills) : Len(skills[i]) = 0 ->
                 /\ users' = [x \in DOMAIN users \cup {u} |->
                                 IF x = u THEN account ELSE users[x]]
                 /\ Respond(u, Error(500, "Worker validation failed"))
                 /\ UNCHANGED workers
            [] OTHER ->
                 /\ users' = [x \in DOMAIN users \cup {u} |->
                                 IF x = u THEN account ELSE users[x]]
                 /\ workers' = [w \in DOMAIN workers \cup {u} |->
                                   IF w = u
                                   THEN preSave(Profile(skills, <<>>, 10,
                                                        location.coordinates))
                                   ELSE workers[w]]
                 /\ Respond(u, [to |-> u, status |-> 201])
    /\ UNCHANGED <<jobs, now, vapid, nextId>>

\* POST /ensure-profile: the profile found, or one created from the body;
\* the create fails on a NaN coordinate (cast), on an empty skill or a
\* category outside the enum (validation) and on coordinates the index
\* does not take, and the catch answers 500.
EnsureProfile(u, body) ==
    /\ req[u] = Idle
    /\ u \in DOMAIN users
    /\ LET longitude == parseFloat(body.longitude)
           latitude == parseFloat(body.latitude)
           given == Truthy(body.latitude) /\ Truthy(body.longitude)
           coordinates == IF given THEN <<longitude.val, latitude.val>>
                          ELSE <<77, 28>>
           normalizedSkills == NormalizedSkills(body)
           doc == preSave(Profile(normalizedSkills, normalizedSkills, 50, coordinates))
       IN CASE u \in DOMAIN workers ->
                 /\ Respond(u, [to |-> u, status |-> 200, data |-> workers[u]])
                 /\ UNCHANGED workers
            [] \/ given /\ (longitude.isNaN \/ latitude.isNaN)
               \/ \E i \in 1..Len(normalizedSkills) :
                      \/ Len(normalizedSkills[i]) = 0
                      \/ normalizedSkills[i] \notin WorkerCategories
               \/ ~GeoKeys(coordinates) ->
                 /\ Respond(u, Error(500, "Failed to ensure worker profile"))
                 /\ UNCHANGED workers
            [] OTHER ->
                 /\ workers' = [w \in DOMAIN workers \cup {u} |->
                                   IF w = u THEN doc ELSE workers[w]]
                 /\ Respond(u, [to |-> u, status |-> 200, data |-> doc])
    /\ UNCHANGED <<jobs, users, now, vapid, nextId>>

\* PUT /profile: findOneAndUpdate sets skills and categories to the
\* normalized skills, and the radius when one is sent; no hook and no
\* validator runs.
PutProfile(u, body) ==
    /\ req[u] = Idle
    /\ u \in DOMAIN users
    /\ IF u \notin DOMAIN workers
       THEN /\ Respond(u, Error(404, "Worker profile not found"))
            /\ UNCHANGED workers
       ELSE LET worker == [workers[u] EXCEPT
                              !.skills = NormalizedSkills(body),
                              !.categories = NormalizedSkills(body),
                              !.serviceRadius =
                                  IF body.serviceRadius # 0 THEN body.serviceRadius
                                  ELSE @]
            IN /\ workers' = [workers EXCEPT ![u] = worker]
               /\ Respond(u, [to |-> u, status |-> 200, data |-> worker])
    /\ UNCHANGED <<jobs, users, now, vapid, nextId>>

\* updateWorkerProfile: skills lower-cased and trimmed, the radius when one
\* is sent, the location when both coordinates are sent and valid;
\* categories are not written.
UpdateWorkerProfile(u, body) ==
    /\ req[u] = Idle
    /\ u \in DOMAIN users
    /\ LET given == Truthy(body.latitude) /\ Truthy(body.longitude)
           locationObj == validateCoordinates(parseFloat(body.latitude),
                                              parseFloat(body.longitude))
       IN CASE given /\ locationObj = NoLocation ->
                 /\ Respond(u, Error(400, "Invalid coordinates provided"))
                 /\ UNCHANGED workers
            [] u \notin DOMAIN workers ->
                 /\ Respond(u, Error(404, "Worker profile not found"))
                 /\ UNCHANGED workers
            [] OTHER ->
                 LET worker == [workers[u] EXCEPT
                                   !.skills = IF "skills" \in DOMAIN body
                                              THEN NormalizedSkills(body) ELSE @,
                                   !.serviceRadius =
                                       IF body.serviceRadius # 0
                                       THEN body.serviceRadius ELSE @,
                                   !.location = IF given THEN locationObj ELSE @]
                 IN /\ workers' = [workers EXCEPT ![u] = worker]
                    /\ Respond(u, [to |-> u, status |-> 200, data |-> worker])
    /\ UNCHANGED <<jobs, users, now, vapid, nextId>>

\* PUT /update-location: the validated point is set, or 400.
UpdateLocation(u, body) ==
    /\ req[u] = Idle
    /\ u \in DOMAIN users
    /\ LET locationObj == validateCoordinates(parseFloat(body.latitude),
                                              parseFloat(body.longitude))
       IN CASE locationObj = NoLocation ->
                 /\ Respond(u, Error(400, "Invalid coordinates."))
                 /\ UNCHANGED workers
            [] u \notin DOMAIN workers ->
                 /\ Respond(u, Error(404, "Worker profile not found"))
                 /\ UNCHANGED workers
            [] OTHER ->
                 /\ workers' = [workers EXCEPT ![u].location = locationObj]
                 /\ Respond(u, [to |-> u, status |-> 200, location |-> locationObj])
    /\ UNCHANGED <<jobs, users, now, vapid, nextId>>

\* The latitude and longitude sent (the cityLatitude and cityLongitude of
\* register and updateWorkerProfile): in range, 0, out of range, not a
\* number, or absent.
SentCoordinates ==
    {<<<<"2", "8">>, <<"7", "7">>>>,
     <<<<"0">>, <<"0">>>>,
     <<<<"2", "0", "0">>, <<"7", "7">>>>,
     <<<<"a", "b", "c">>, <<"7", "7">>>>,
     <<<<"u", "n", "d", "e", "f", "i", "n", "e", "d">>,
       <<"u", "n", "d", "e", "f", "i", "n", "e", "d">>>>}

\* The bodies sent to the profile handlers with the given coordinates and
\* radii (0 for none): skills absent, empty, or naming a category in upper
\* case, a category with blanks around it beside no category, or the empty
\* string.
ProfileBodies(coordinates, radii) ==
    {[latitude |-> c[1], longitude |-> c[2], serviceRadius |-> r] :
        c \in coordinates, r \in radii}
    \cup {[latitude |-> c[1], longitude |-> c[2], serviceRadius |-> r,
           skills |-> s] :
         c \in coordinates, r \in radii,
         s \in {<<>>, <<PLUMBING>>, <<paddedPlumbing, welding>>, <<<<>>>>}}

\* The bodies of job creation sent beside them: a category no skill of the
\* profile bodies matches, and coordinates in range, 0, out of range or NaN.
LocatedBodies ==
    {JobBody(other, latitude, Num(77), At(1, 0, 0), tenOClock) :
        latitude \in {Num(28), Num(0), Num(200), NaN}}

\* Two workers with a profile, w1 not yet registered, and no job.
InitProfiles ==
    /\ jobs = <<>>
    /\ users = [u \in Users \ {"w1"} |-> [rating |-> <<0, 1>>, completedJobs |-> 0]]
    /\ workers = [w \in WorkerUsers \ {"w1"} |-> UnmatchedWorkers[w]]
    /\ now = Clock[1]
    /\ nextId = 0
    /\ req = [u \in Users |-> Idle]
    /\ resp = NoResponse
    /\ vapid = FALSE

NextProfiles ==
    \/ \E body \in ProfileBodies(SentCoordinates, {0}) : Register("w1", body)
    \/ \E body \in ProfileBodies(SentCoordinates, {0}) : EnsureProfile("w1", body)
    \/ \E body \in ProfileBodies({<<<<>>, <<>>>>}, {0, 25}) : PutProfile("w1", body)
    \/ \E body \in ProfileBodies(SentCoordinates, {0}) :
           UpdateWorkerProfile("w1", body)
    \/ \E body \in ProfileBodies(SentCoordinates, {0}) :
           "skills" \notin DOMAIN body /\ UpdateLocation("w1", body)
    \/ \E impl \in {"route", "controller"}, body \in LocatedBodies :
           CreateJob("c1", impl, body)
    \/ DispatchFind("c1")

SpecProfiles == InitProfiles /\ [][NextProfiles]_vars

(***************************************************************************)
(* Requests that end in a validation or authorization failure, beside the  *)
(* life cycle of a job                                                     *)
(***************************************************************************)
NextFailures ==
    \/ \E u \in {"w1", "c1"}, j \in 1..(Len(jobs) + 1) : AcceptJob(u, j)
    \/ AcceptSave("w1")
    \/ \E u \in {"w1", "w2", "c1"}, status \in {"completed", "done"} :
           UpdateJobStatus(u, 1, status)
    \/ \E u \in {"w1", "c1"} : UpdateStatusInc(u)
    \/ \E u \in {"w1", "c1"} : UpdateStatusSave(u)
    \/ \E body \in ProfileBodies(SentCoordinates, {0}) :
           "skills" \notin DOMAIN body /\ UpdateLocation("w1", body)
    \/ \E impl \in {"route", "controller"} : CreateJob("w1", impl, LifeCycleBody)

SpecFailures == InitJobs /\ [][NextFailures]_vars

(***************************************************************************)
(* A worker's profile beside the dispatcher that saves it                  *)
(***************************************************************************)
NextCategories ==
    \/ \E body \in ProfileBodies({<<<<>>, <<>>>>}, {0}) : Register("w1", body)
    \/ \E body \in ProfileBodies({<<<<>>, <<>>>>}, {0}) :
           UpdateWorkerProfile("w1", body)
    \/ \E body \in ProfileBodies(SentCoordinates, {0}) :
           "skills" \notin DOMAIN body /\ UpdateLocation("w1", body)
    \/ SavePushSubscription("w1", TRUE)
    \/ \E id \in 1..nextId : MarkRead("w1", id)
    \/ CreateJob("c1", "controller", LifeCycleBody)
    \/ DispatchFind("c1")
    \/ \E w \in WorkerUsers : BranchSave("c1", w)
    \/ DispatchReturn("c1")

SpecCategories == InitProfiles /\ [][NextCategories]_vars

(***************************************************************************)
(* Reviews of two completed jobs of one worker                             *)
(***************************************************************************)
\* Two jobs, posted by c1 and by c2, that w1 accepted and completed.
InitReviews ==
    /\ users = [u \in Users |->
                   [rating |-> <<0, 1>>,
                    completedJobs |-> IF u = "w1" THEN 2 ELSE 0]]
    /\ now = Clock[2]
    /\ nextId = 0
    /\ req = [u \in Users |-> Idle]
    /\ resp = NoResponse
    /\ vapid = FALSE
    /\ workers = UnmatchedWorkers
    /\ jobs = [j \in 1..2 |->
                  [Posted(LifeCycleBody, IF j = 1 THEN "c1" ELSE "c2")
                   EXCEPT !.worker = "w1", !.status = "completed",
                          !.completedAt = Clock[1]]]

NextReviews ==
    \/ \E u \in Clients, j \in JobIds, rating \in Ratings : AddReview(u, j, rating)
    \/ \E u \in Clients : ReviewSave(u)
    \/ \E u \in Clients : ReviewFind(u)
    \/ \E u \in Clients : ReviewUpdate(u)

SpecReviews == InitReviews /\ [][NextReviews]_vars

(***************************************************************************)
(* Notification dispatch: properties                                       *)
(***************************************************************************)
\* u's createJob has started its branches and has not responded yet.
Dispatching(c) == req[c].op = "createJob" /\ req[c].pc = "branches"

\* This step is the return of c's dispatcher (and createJob's response).
Returns(c) == req[c].op = "createJob" /\ req'[c] = Idle

\* The notifications of job j in the stored list of worker w.
RecordsOf(ws, w, j) ==
    {i \in 1..Len(ws[w].notifications) : ws[w].notifications[i].job = j}

\* C2 as stated: when the dispatcher returns, every worker the query matched
\* holds exactly one notification of the job, of type new_job and unread,
\* and no other worker holds one.
C2_Original ==
    [][\A c \in Clients :
          Dispatching(c) /\ Returns(c) =>
              \A w \in DOMAIN workers :
                  IF w \in DOMAIN req[c].branches
                  THEN /\ Cardinality(RecordsOf(workers', w, req[c].job)) = 1
                       /\ \A i \in RecordsOf(workers', w, req[c].job) :
                              /\ workers'[w].notifications[i].type = "new_job"
                              /\ ~workers'[w].notifications[i].isRead
                  ELSE RecordsOf(workers', w, req[c].job) = {}]_vars

\* C2, amended: when the dispatcher returns, a matched worker whose save
\* resolved holds exactly one notification of the job, of type new_job; a
\* matched worker whose save was rejected and an unmatched worker hold none;
\* and every notification enters a list unread and of type new_job.
C2_FanOut ==
    [][/\ \A c \in Clients :
            Returns(c) =>
                \A w \in DOMAIN workers :
                    IF Dispatching(c) /\ w \in DOMAIN req[c].branches
                          /\ req[c].branches[w].saved
                    THEN /\ Cardinality(RecordsOf(workers', w, req[c].job)) = 1
                         /\ \A i \in RecordsOf(workers', w, req[c].job) :
                                workers'[w].notifications[i].type = "new_job"
                    ELSE RecordsOf(workers', w, req[c].job) = {}
       /\ \A w \in DOMAIN workers :
            workers'[w].notifications # workers[w].notifications =>
                \/ /\ Len(workers'[w].notifications) = Len(workers[w].notifications) + 1
                   /\ SubSeq(workers'[w].notifications, 1, Len(workers[w].notifications))
                          = workers[w].notifications
                   /\ workers'[w].notifications[Len(workers'[w].notifications)].type = "new_job"
                   /\ ~workers'[w].notifications[Len(workers'[w].notifications)].isRead
                \/ Len(workers'[w].notifications) = Len(workers[w].notifications)]_vars

\* The dispatcher has returned for a job both of whose matching workers hold
\* its notification, while the third worker holds none.
C2_Witness ==
    /\ resp.status = 201 /\ req[resp.to] = Idle
    /\ Cardinality(RecordsOf(workers, "w1", resp.job)) = 1
    /\ Cardinality(RecordsOf(workers, "w2", resp.job)) = 1
    /\ RecordsOf(workers, "w3", resp.job) = {}

\* C3: a createJob that has saved its job ends with the 201 response
\* carrying that job, and the job is in the store, whatever the dispatcher
\* met.
C3_CreateJobSucceeds ==
    [][\A c \in Clients :
          Returns(c) =>
              /\ resp'.to = c /\ resp'.status = 201
              /\ resp'.job = req[c].job /\ resp'.data = req[c].doc
              /\ req[c].job \in 1..Len(jobs')
              /\ jobs'[req[c].job].title = req[c].doc.title
              /\ jobs'[req[c].job].user = c]_vars

\* createJob has answered 201 for a plumbing job although w1, whose skill
\* matches, holds no notification of it: the dispatcher failed on the way.
C3_Witness ==
    /\ resp.status = 201 /\ req[resp.to] = Idle
    /\ resp.data.category = plumbing
    /\ RecordsOf(workers, "w1", resp.job) = {}

\* C4: a step in which one branch fails (its save or its push is rejected)
\* leaves every other branch of the dispatch and every other worker's
\* document as they were, and the dispatch goes on.
C4_BranchIsolation ==
    [][\A c \in Clients : \A v \in WorkerUsers :
          (/\ Dispatching(c) /\ v \in DOMAIN req[c].branches
           /\ req[c].branches[v].pc # "done"
           /\ req'[c].op = "createJob"
           /\ req'[c].branches[v].pc = "done"
           /\ (~req'[c].branches[v].saved \/ req'[c].branches[v].pushFailed))
          => /\ Dispatching(c)'
             /\ \A w \in DOMAIN req[c].branches \ {v} :
                    /\ req'[c].branches[w] = req[c].branches[w]
                    /\ workers'[w] = workers[w]]_vars

\* w1's branch has failed to save while w2's branch of the same dispatch has
\* saved its notification.
C4_Witness ==
    \E c \in Clients :
        /\ Dispatching(c) /\ DOMAIN req[c].branches = {"w1", "w2"}
        /\ req[c].branches["w1"].pc = "done" /\ ~req[c].branches["w1"].saved
        /\ req[c].branches["w2"].saved
        /\ Cardinality(RecordsOf(workers, "w2", req[c].job)) = 1

\* C5: the dispatcher returns only in a state where every branch it started
\* has finished.
C5_AwaitsAll ==
    [][\A c \in Clients :
          Dispatching(c) /\ Returns(c) =>
              \A w \in DOMAIN req[c].branches : req[c].branches[w].pc = "done"]_vars

\* A dispatch over two workers in which one branch has finished by a failed
\* save while the other is still pushing: the dispatcher has not returned.
C5_Witness ==
    \E c \in Clients :
        /\ Dispatching(c) /\ DOMAIN req[c].branches = {"w1", "w2"}
        /\ req[c].branches["w2"].pc = "done" /\ ~req[c].branches["w2"].saved
        /\ req[c].branches["w1"].pc = "push"

\* C6 as stated: whenever a branch has finished for a worker whose loaded
\* document has a push subscription (the VAPID key being configured), a push
\* has been attempted, whether or not the save succeeded.
C6_Original ==
    \A c \in Clients :
        Dispatching(c) =>
            \A w \in DOMAIN req[c].branches :
                (/\ req[c].branches[w].pc = "done"
                 /\ req[c].branches[w].doc.pushSubscription /\ vapid)
                => req[c].branches[w].pushAttempted

\* C7: the step in which a push is rejected changes no worker document, and
\* a branch whose push was rejected has its notification in the worker's
\* stored list.
C7_PushFailureKeepsRecord ==
    [][\A c \in Clients :
          Dispatching(c)' =>
              \A w \in DOMAIN req'[c].branches :
                  req'[c].branches[w].pushFailed =>
                      /\ (Dispatching(c) /\ ~req[c].branches[w].pushFailed
                            => workers' = workers)
                      /\ \E i \in 1..Len(workers'[w].notifications) :
                             workers'[w].notifications[i].id
                                 = req'[c].branches[w].notification.id]_vars

\* w1's push has been rejected; its notification and the one of w2 are in
\* the store.
C7_Witness ==
    \E c \in Clients :
        /\ Dispatching(c) /\ DOMAIN req[c].branches = {"w1", "w2"}
        /\ req[c].branches["w1"].pushFailed
        /\ Cardinality(RecordsOf(workers, "w1", req[c].job)) = 1
        /\ Cardinality(RecordsOf(workers, "w2", req[c].job)) = 1

\* C21: whenever a dispatcher has started its branches, every worker whose
\* categories are just 'general' has a branch, whatever the job's category.
C21_Original ==
    \A c \in Clients :
        Dispatching(c) =>
            \A w \in DOMAIN workers :
                workers[w].categories = <<general>> => w \in DOMAIN req[c].branches

\* C29: a mark-as-read of notification id by worker u sets isRead on the
\* notification of that id in u's own list and changes no other
\* notification of u or of any other worker; and no step removes a
\* notification from a list or turns its isRead from true to false.
C29_MarkReadFrame ==
    [][/\ \A u \in WorkerUsers, id \in 1..nextId :
            MarkRead(u, id) =>
                \A w \in DOMAIN workers :
                    /\ Len(workers'[w].notifications) = Len(workers[w].notifications)
                    /\ \A i \in 1..Len(workers[w].notifications) :
                           workers'[w].notifications[i] =
                               IF w = u /\ workers[w].notifications[i].id = id
                               THEN [workers[w].notifications[i] EXCEPT !.isRead = TRUE]
                               ELSE workers[w].notifications[i]
       /\ \A w \in DOMAIN workers :
            /\ Len(workers'[w].notifications) >= Len(workers[w].notifications)
            /\ \A i \in 1..Len(workers[w].notifications) :
                   /\ workers'[w].notifications[i].id = workers[w].notifications[i].id
                   /\ workers[w].notifications[i].isRead
                          => workers'[w].notifications[i].isRead]_vars

\* w1 holds two notifications and has just marked the first as read, the
\* second still being unread.
C29_Witness ==
    /\ resp.to = "w1" /\ resp.status = 200
    /\ resp.message = "Notification marked as read"
    /\ Len(workers["w1"].notifications) = 2
    /\ workers["w1"].notifications[1].isRead
    /\ ~workers["w1"].notifications[2].isRead

(***************************************************************************)
(* Failures and frames                                                     *)
(***************************************************************************)
\* The stored state: the jobs, the worker profiles and the user accounts.
Stored == <<jobs, workers, users>>

\* C22: a step in which a request ends with a validation or authorization
\* failure (400 or 403) changes no stored state, and a request whose status
\* is outside the enumeration, which is to end so, changes none on its way.
C22_FailuresChangeNothing ==
    [][\A u \in Users :
          /\ (req'[u] = Idle /\ resp' # resp /\ resp'.to = u
                /\ resp'.status \in {400, 403})
                 => Stored' = Stored
          /\ (req[u].op = "updateJobStatus" /\ req[u].doc.status \notin JobStatuses
                /\ req'[u] # req[u])
                 => Stored' = Stored]_vars

\* w1 has moved its location and accepted the job, and w2, who is neither
\* poster nor assigned worker, has been refused an update of its status.
C22_Witness ==
    /\ resp.to = "w2" /\ resp.status = 403 /\ resp.message = "Not authorized"
    /\ jobs[1].status = "in progress" /\ jobs[1].worker = "w1"
    /\ workers["w1"].location.coordinates = <<0, 0>>

\* C23: the categories of a stored worker profile change only in a step
\* that updates the profile's skills; the dispatcher's save, mark-as-read,
\* the push subscription and a location update leave them as they are.
C23_Original ==
    [][\A w \in DOMAIN workers :
          workers'[w].categories # workers[w].categories
              => workers'[w].skills # workers[w].skills]_vars

(***************************************************************************)
(* Accepting a job                                                         *)
(***************************************************************************)
\* C1: an acceptJob by a worker on a pending, unassigned job is not refused,
\* and when its save resolves it answers 200 with worker = that worker and
\* status = 'in progress' stored; an acceptJob issued once an accept of the
\* job has completed is answered with an error and leaves the jobs unchanged.
C1_AcceptOnce ==
    [][\A u \in Users, j \in JobIds :
          /\ (/\ AcceptJob(u, j)
              /\ userType(u) = "worker"
              /\ jobs[j].status = "pending" /\ jobs[j].worker = NoWorker)
                 => req'[u].op = "acceptJob" /\ req'[u].job = j
          /\ (AcceptSave(u) /\ req[u].job = j)
                 => /\ resp'.to = u /\ resp'.status = 200
                    /\ jobs'[j].worker = u /\ jobs'[j].status = "in progress"
          /\ (AcceptJob(u, j) /\ jobs[j].worker # NoWorker)
                 => /\ req'[u] = Idle
                    /\ resp'.to = u /\ resp'.status >= 400
                    /\ jobs' = jobs]_vars

\* w2 has been refused the job that w1 holds.
C1_Witness ==
    /\ Len(jobs) >= 1
    /\ jobs[1].worker = "w1" /\ jobs[1].status = "in progress"
    /\ resp.to = "w2" /\ resp.status = 400
    /\ resp.message = "Job is no longer available"

(***************************************************************************)
(* The disclosure of the exact location                                    *)
(***************************************************************************)
\* The caller is the worker assigned to job j and the job is active.
MayQuery(u, j) ==
    /\ userType(u) = "worker"
    /\ j \in JobIds
    /\ jobs[j].worker = u
    /\ jobs[j].status \in {"pending", "in progress"}

\* The hour of a well-formed timeStart of this model (both are on the hour).
StartHour(timeStart) == IF timeStart = tenOClock THEN 10 ELSE 2

\* The deadline's date at the hour of timeStart, less three hours.
ThreeHoursBefore(job) ==
    (job.deadline \div (24 * 60)) * (24 * 60) + StartHour(job.timeStart) * 60 - 3 * 60

\* C8: for the assigned worker of an active job whose timeStart is hh:mm,
\* getJobLocation answers available = true with the posted coordinates and
\* address if and only if now >= revealTime (the deadline's date at hh:mm
\* less three hours); otherwise available = false with revealTime and
\* neither coordinates nor address.
C8_RevealGate ==
    [][\A u \in Users, j \in JobIds :
          (/\ GetJobLocation(u, j)
           /\ MayQuery(u, j)
           /\ jobs[j].timeStart \in {tenOClock, twoOClock})
          => /\ resp'.to = u /\ resp'.status = 200
             /\ resp'.available = (now >= ThreeHoursBefore(jobs[j]))
             /\ IF now >= ThreeHoursBefore(jobs[j])
                THEN /\ resp'.exactLocation = [latitude |-> 28, longitude |-> 77]
                     /\ resp'.exactAddress = "12 Main St, Delhi"
                ELSE /\ resp'.revealTime = ThreeHoursBefore(jobs[j])
                     /\ DOMAIN resp' \cap {"exactLocation", "exactAddress"} = {}]_vars

\* At 07:00 of the deadline's day, the very reveal time of a job starting at
\* 10:00, w1 has been given the location.
C8_Witness ==
    /\ Len(jobs) >= 1
    /\ jobs[1].timeStart = tenOClock /\ jobs[1].deadline = 24 * 60
    /\ now = 24 * 60 + 7 * 60
    /\ resp.to = "w1" /\ resp.status = 200
    /\ "available" \in DOMAIN resp /\ resp.available

\* C9: to a caller who is not the assigned worker of the job, or when the
\* job is neither pending nor in progress, getJobLocation sends an error
\* without location, address or revealTime, the very response the same
\* caller gets for a job that does not exist: 404 for a worker.
C9_NoDisclosure ==
    [][\A u \in Users, j \in 1..(Len(jobs) + 1) :
          (GetJobLocation(u, j) /\ ~MayQuery(u, j))
          => /\ resp'.to = u /\ resp'.status >= 400
             /\ DOMAIN resp' \cap {"available", "exactLocation", "exactAddress",
                                  "revealTime"} = {}
             /\ GetJobLocation(u, Len(jobs) + 1)
             /\ userType(u) = "worker" => resp'.status = 404]_vars

\* w1, still the job's worker, is told "not found" once the job is completed.
C9_Witness ==
    /\ Len(jobs) >= 1
    /\ jobs[1].worker = "w1" /\ jobs[1].status = "completed"
    /\ resp.to = "w1" /\ resp.status = 404

(***************************************************************************)
(* The aggregate rating                                                    *)
(***************************************************************************)
\* C10: when a review of a job is answered with success, the rating stored
\* for the job's worker is a number, and, the job being the worker's only
\* one, it is the rating just submitted.
C10_Original ==
    [][\A u \in Clients :
          (/\ ReviewUpdate(u)
           /\ resp'.status = 200
           /\ req[u].doc.worker # NoWorker)
          => LET average == users'[req[u].doc.worker].rating
             IN /\ average[2] # 0
                /\ average[1] = req[u].doc.rating * average[2]]_vars

\* C24: a step in which a worker's acceptJob ends with a success response
\* finds the job still pending and unassigned in the store, so that no
\* other worker has been given success for it, and leaves the worker who
\* got the response as the job's worker.
C24_Original ==
    [][\A u \in WorkerUsers :
          (req[u].op = "acceptJob" /\ req'[u] = Idle /\ resp'.status = 200)
          => /\ jobs[req[u].job].status = "pending"
             /\ jobs[req[u].job].worker = NoWorker
             /\ jobs'[req[u].job].worker = u]_vars

\* C26: whenever no request is under way, each worker's completedJobs
\* counter is the number of stored jobs assigned to that worker whose status
\* is 'completed'.
C26_Original ==
    (\A u \in Users : req[u] = Idle)
    => \A w \in WorkerUsers :
           users[w].completedJobs
               = Cardinality({j \in JobIds : jobs[j].worker = w
                                              /\ jobs[j].status = "completed"})

\* C27: a stored job whose status is 'in progress' or 'completed' has a
\* worker, and a stored job whose status is 'pending' has none.
C27_Original ==
    \A j \in JobIds :
        /\ jobs[j].status \in {"in progress", "completed"} => jobs[j].worker # NoWorker
        /\ jobs[j].status = "pending" => jobs[j].worker = NoWorker

\* C28: a success response to a worker about a job whose location is not
\* yet revealed carries neither the job's location nor its address.
C28_Original ==
    (/\ resp.status = 200 /\ resp.to \in WorkerUsers
     /\ "data" \in DOMAIN resp /\ "job" \in DOMAIN resp
     /\ resp.job \in JobIds /\ ~Revealed(jobs[resp.job]))
    => /\ "location" \notin DOMAIN resp.data
       /\ "address" \notin DOMAIN resp.data

(***************************************************************************)
(* Nearby jobs                                                             *)
(***************************************************************************)
\* The response is a result of nearby-jobs.
IsNearbyResult == resp.status = 200 /\ "data" \in DOMAIN resp /\ "count" \in DOMAIN resp

\* The _ids of the jobs in the result.
Returned == {resp.data[i]._id : i \in 1..Len(resp.data)}

\* The job lies within the worker's service radius of the worker's location.
WithinServiceRadius(worker, job) ==
    SphereDistance(worker.location.coordinates, job.location.coordinates)
        <= worker.serviceRadius * 1000

\* The job passes the category filter of the query for the worker: there is
\* no filter for a worker without categories or with the one category
\* 'general'.
PassesCategoryFilter(worker, job) ==
    \/ Len(worker.categories) = 0
    \/ worker.categories = <<general>>
    \/ \E i \in 1..Len(worker.categories) : worker.categories[i] = job.category

\* The jobs that qualify for the worker.
Qualifying(worker) ==
    {k \in JobIds :
        /\ jobs[k].status = "pending" /\ jobs[k].worker = NoWorker
        /\ WithinServiceRadius(worker, jobs[k])
        /\ PassesCategoryFilter(worker, jobs[k])}

\* C13: every job in a result of nearby-jobs is pending, has no worker, lies
\* within the worker's service radius and passes the category filter; the
\* result holds at most 20 jobs, no job twice, in descending order of
\* creation time; and when more than 20 jobs qualify it holds 20 jobs, none
\* of them created before a qualifying job that was left out.
C13_NearbyResult ==
    IsNearbyResult =>
        LET worker == workers[resp.to]
            created(i) == jobs[resp.data[i]._id].createdAt
        IN /\ Returned \subseteq Qualifying(worker)
           /\ resp.count = Len(resp.data)
           /\ Len(resp.data) <= Limit
           /\ \A i, j \in 1..Len(resp.data) :
                  i < j => /\ resp.data[i]._id # resp.data[j]._id
                           /\ created(i) >= created(j)
           /\ Cardinality(Qualifying(worker)) > Limit
                  => /\ Len(resp.data) = Limit
                     /\ \A k \in Qualifying(worker) \ Returned, r \in Returned :
                            jobs[k].createdAt <= jobs[r].createdAt

\* A result of 20 jobs out of more than 20 that qualify, in a store whose
\* newest job has been accepted and so is not in the result.
C13_Witness ==
    /\ IsNearbyResult
    /\ Len(resp.data) = Limit
    /\ Cardinality(Qualifying(workers[resp.to])) > Limit
    /\ jobs[Len(jobs)].status = "in progress"
    /\ Len(jobs) \notin Returned

\* C14: no job object in a result of nearby-jobs has a location field.
C14_NoLocation ==
    IsNearbyResult =>
        \A i \in 1..Len(resp.data) : "location" \notin DOMAIN resp.data[i]

\* A result that holds a job object, with the job's approximate location
\* and its distance from the worker.
C14_Witness ==
    /\ IsNearbyResult
    /\ Len(resp.data) >= 1
    /\ resp.data[1].approximateLocation = "Delhi"
    /\ resp.data[1].distance = 1112
    /\ jobs[resp.data[1]._id].location.coordinates = <<77, 29>>

\* The worker document has no location, or one that does not have exactly
\* two coordinates, or the location (0,0).
NoUsableLocation(worker) ==
    \/ worker.location = NoLocation
    \/ Len(worker.location.coordinates) # 2
    \/ worker.location.coordinates = <<0, 0>>

\* C15: a call of nearby-jobs by a worker whose registered location is
\* missing, has not exactly two coordinates or is (0,0) ends at once with a
\* client error, no job query having been issued; and the query a call does
\* issue is centred on the worker's stored location.
C15_NoQueryWithoutLocation ==
    [][\A u \in DOMAIN workers :
          NearbyJobs(u)
          => /\ NoUsableLocation(workers[u])
                 => /\ req'[u] = Idle
                    /\ resp'.to = u /\ resp'.status >= 400 /\ resp'.status < 500
             /\ req'[u] # Idle
                 => req'[u].query.geometry = workers[u].location]_vars

\* A worker registered at (0,0) has been refused.
C15_Witness ==
    /\ "w1" \in DOMAIN workers
    /\ workers["w1"].location.coordinates = <<0, 0>>
    /\ req["w1"] = Idle
    /\ resp.to = "w1" /\ resp.status = 400

\* C12: a result of fewer than 20 jobs for a worker whose categories are
\* all 'general' holds every pending, unassigned job within the worker's
\* radius, whatever its category; a result for a worker whose categories
\* are all 'plumbing' holds no job of category 'electrical'.
C12_Original ==
    IsNearbyResult =>
        LET worker == workers[resp.to]
            categories == {worker.categories[i] : i \in 1..Len(worker.categories)}
        IN /\ (categories = {general} /\ Len(resp.data) < Limit)
                  => \A k \in JobIds :
                         (/\ jobs[k].status = "pending" /\ jobs[k].worker = NoWorker
                          /\ WithinServiceRadius(worker, jobs[k]))
                         => k \in Returned
           /\ categories = {plumbing}
                  => \A k \in Returned : jobs[k].category # electrical

(***************************************************************************)
(* Worker profiles                                                         *)
(***************************************************************************)
\* C18: every category of every stored worker profile is a member of the
\* closed enumeration of worker categories.
C18_Original ==
    \A w \in DOMAIN workers :
        \A i \in 1..Len(workers[w].categories) :
            workers[w].categories[i] \in WorkerCategories

\* The location is a point of two coordinates, the longitude in
\* [-180, 180] first and the latitude in [-90, 90] second.
ValidPoint(location) ==
    /\ location.type = "Point"
    /\ Len(location.coordinates) = 2
    /\ location.coordinates[1] \in -180..180
    /\ location.coordinates[2] \in -90..90

\* C19: the location of every stored worker profile and of every stored job
\* is a point with its longitude in [-180, 180] first and its latitude in
\* [-90, 90] second.
C19_StoredLocationsValid ==
    /\ \A w \in DOMAIN workers : ValidPoint(workers[w].location)
    /\ \A j \in JobIds : ValidPoint(jobs[j].location)

\* A profile created by ensure-profile at the position sent, later moved by
\* update-location, beside a stored job.
C19_Witness ==
    /\ "w1" \in DOMAIN workers
    /\ workers["w1"].serviceRadius = 50
    /\ workers["w1"].location.coordinates = <<0, 0>>
    /\ Len(jobs) >= 1
    /\ jobs[1].location.coordinates = <<77, 28>>

\* C30: a createJob by a client, through the route or the controller, stores
\* the job exactly when validateCoordinates returns a point for the
\* latitude and longitude sent.
C30_Original ==
    [][\A impl \in {"route", "controller"}, body \in LocatedBodies :
          CreateJob("c1", impl, body)
          => (validateCoordinates(body.latitude, body.longitude) # NoLocation
                  <=> Len(jobs') = Len(jobs) + 1)]_vars

(***************************************************************************)
(* The coordinate validator and the category normalization                 *)
(***************************************************************************)
\* A text is a numeral: an optional minus sign and then digits only.
IsNumeral(s) ==
    LET d == IF Len(s) > 0 /\ s[1] = "-" THEN Tail(s) ELSE s
    IN Len(d) > 0 /\ \A i \in 1..Len(d) : d[i] \in {Digits[k] : k \in 1..Len(Digits)}

\* The number a numeral denotes.
NumeralValue(s) ==
    IF s[1] = "-" THEN 0 - DecimalValue(Tail(s)) ELSE DecimalValue(s)

\* C16 as stated: validateCoordinates(lat, lng) is the point [lng, lat] when
\* both values are numbers with lat in [-90, 90] and lng in [-180, 180], and
\* is null when either value is not a number or is out of range.
C16_Original ==
    (resp.status = 200 /\ "location" \in DOMAIN resp /\ "latitude" \in DOMAIN resp)
    => IF /\ IsNumeral(resp.latitude) /\ IsNumeral(resp.longitude)
          /\ NumeralValue(resp.latitude) >= -90 /\ NumeralValue(resp.latitude) <= 90
          /\ NumeralValue(resp.longitude) >= -180 /\ NumeralValue(resp.longitude) <= 180
       THEN resp.location = [type |-> "Point",
                             coordinates |-> <<NumeralValue(resp.longitude),
                                               NumeralValue(resp.latitude)>>]
       ELSE resp.location = NoLocation

\* C17: the categories the normalization produced from a list of skills are
\* what the normalization produces again when it is given those categories
\* as skills.
C17_NormalizeIdempotent ==
    (resp.status = 200 /\ "categories" \in DOMAIN resp)
    => preSave(Profile(resp.categories, <<>>, 10, <<77, 28>>)).categories
           = resp.categories

\* The normalization has mapped a skill that names no category to 'general'
\* beside a category written in upper case.
C17_Witness ==
    /\ resp.status = 200 /\ "categories" \in DOMAIN resp
    /\ resp.skills = <<welding, PLUMBING>>
    /\ resp.categories = <<general, plumbing>>

(***************************************************************************)
(* Reviews and terminal jobs                                               *)
(***************************************************************************)
\* C11: a submitReview by a caller who is not the job's poster, or on a job
\* whose status is not 'completed', ends at once with an error and changes
\* neither the stored jobs nor any user's aggregate rating.
C11_ReviewRejected ==
    [][\A u \in Clients, j \in JobIds, rating \in Ratings :
          (/\ AddReview(u, j, rating)
           /\ (jobs[j].user # u \/ jobs[j].status # "completed"))
          => /\ req'[u] = Idle
             /\ resp'.to = u /\ resp'.status >= 400
             /\ jobs' = jobs
             /\ users' = users]_vars

\* The poster has been refused a review of a job that is still in progress.
C11_Witness ==
    /\ Len(jobs) >= 1
    /\ jobs[1].user = "c1" /\ jobs[1].status = "in progress"
    /\ resp.to = "c1" /\ resp.status = 400
    /\ resp.message = "Can only review completed jobs"

\* C20: a step that completes an updateJobStatus, acceptJob or submitReview
\* does not change the status or the worker of a job whose stored status is
\* 'cancelled'.
C20_Original ==
    [][\A j \in JobIds :
          jobs[j].status = "cancelled"
          => /\ jobs'[j].status = jobs[j].status
             /\ jobs'[j].worker = jobs[j].worker]_vars

\* C25: when a submitReview ends while no other is under way, it has
\* succeeded, the rating it carried is stored on its job, and the rating of
\* the job's worker is the mean of the ratings stored on the worker's jobs.
C25_Original ==
    [][\A u \in Clients :
          (/\ req[u].op = "addReview" /\ req'[u] = Idle
           /\ \A v \in Clients \ {u} : req[v] = Idle)
          => /\ resp'.status = 200
             /\ jobs'[req[u].job].rating = req[u].doc.rating
             /\ users'[req[u].doc.worker].rating
                    = Ratio(SumRatings(RatedJobsOf(req[u].doc.worker)),
                            Cardinality(RatedJobsOf(req[u].doc.worker)))']_vars
====
